---- MODULE Spec2Model ----
(***************************************************************************)
(* A model of the text-sim utilities and BERT layer helpers:               *)
(*   sim/tools/tools.py        ProgressBar, get_logger, save_model_config, *)
(*                             get_model_config                            *)
(*   sim/bert_base/__init__.py BertConfig                                  *)
(*   sim/tensorflow/layers.py  BertSelfAttention, BertOutput               *)
(* Each part of the program has its own variables and its own              *)
(* specification; the other parts stay idle in it.                         *)
(***************************************************************************)
EXTENDS Integers, Sequences, FiniteSets, TLC

VARIABLES
    config_file,    \* the file at config_path: [exists, kind, pairs]
    config_call,    \* the last save_model_config / get_model_config call and its outcome
    config_saved,   \* history: key -> entry written by the last successful save under key
    config_all_ok   \* history: every save_model_config call so far returned True

VARIABLES
    fs_dirs,          \* the directories that exist, as paths relative to the working directory
    fs_files,         \* the log files that exist
    loggerDict,       \* logging's registry: logger name -> [id, handlers, propagate, level]
    logger_call,      \* the last get_logger call and its outcome
    logger_returned   \* history: the names a get_logger call has returned a logger for

VARIABLES
    bert_config,    \* the __dict__ of the current BertConfig, as ordered <<field, value>> pairs
    bert_json,      \* the text last returned by to_json_string, as ordered <<key, literal>> members
    bert_back       \* BertConfig.from_dict(json.loads(bert_json)).__dict__

bertVars == <<bert_config, bert_json, bert_back>>

VARIABLES
    output_layer,   \* the BertOutput object of the last construction, NoObject if it raised
    output_call     \* the last BertOutput.__init__ / call and its outcome

outputVars == <<output_layer, output_call>>

VARIABLES
    bar,        \* the ProgressBar object: its attributes, NoObject before construction
    bar_call,   \* the last ProgressBar operation and its outcome
    bar_last    \* history: the values shown by the last __call__ since construction or reset

barVars == <<bar, bar_call, bar_last>>

VARIABLES
    attn,          \* the BertSelfAttention object: its attributes, NoObject before construction
    attn_input,    \* the tensor last split into heads
    attn_split,    \* transpose_for_scores(attn_input, head_size)
    attn_merged,   \* attn_split merged back into (batch, seq, num_heads * head_size)
    attn_call      \* the last BertSelfAttention.call: shapes of the split tensors, the scale

attnVars == <<attn, attn_input, attn_split, attn_merged, attn_call>>

VARIABLES
    pos_layer,   \* the PositionEmbedding object: its attributes, NoObject before construction
    pos_call     \* the last PositionEmbedding.call: the position ids, the lookups made, the outcome

posVars == <<pos_layer, pos_call>>

configVars == <<config_file, config_call, config_saved, config_all_ok>>
loggerVars == <<fs_dirs, fs_files, loggerDict, logger_call, logger_returned>>

vars == <<configVars, loggerVars, bertVars, outputVars, barVars, attnVars, posVars>>

(***************************************************************************)
(* Small helpers on Python dicts kept as insertion-ordered sequences of    *)
(* <<key, value>> pairs.                                                    *)
(***************************************************************************)
EmptyMap == [k \in {} |-> 0]

PairKeys(pairs) == { pairs[i][1] : i \in 1..Len(pairs) }

HasKey(pairs, k) == k \in PairKeys(pairs)

\* dict lookup after parsing: the last pair of a key wins (json.load of an object).
Lookup(pairs, k) ==
    LET last == CHOOSE i \in 1..Len(pairs) :
                    /\ pairs[i][1] = k
                    /\ \A j \in (i+1)..Len(pairs) : pairs[j][1] # k
    IN pairs[last][2]

NoDupKeys(pairs) ==
    \A i, j \in 1..Len(pairs) : pairs[i][1] = pairs[j][1] => i = j

\* A bug variant of DictSet: the entry is appended without looking for the key.
DictSetAppend(pairs, k, v) == Append(pairs, <<k, v>>)

\* config_json[key] = model_config: an existing key keeps its place and gets the
\* new value, a new key goes to the end.
DictSet(pairs, k, v) ==
    IF HasKey(pairs, k)
    THEN [i \in 1..Len(pairs) |-> IF pairs[i][1] = k THEN <<k, v>> ELSE pairs[i]]
    ELSE Append(pairs, <<k, v>>)

(***************************************************************************)
(* Model-config persistence (tools.py, save_model_config/get_model_config) *)
(***************************************************************************)
Keys == {"k1", "k2"}
Descs == {"base", "tuned"}
Times == {1, 2}

\* The training configs a caller passes. The third one already carries a
\* model_desc of its own; the last one holds a value json cannot serialize.
Configs ==
    { [lr |-> 1],
      [lr |-> 2],
      [lr |-> 1, model_desc |-> "stale"],
      [lr |-> 1, callback |-> "<function>"] }

Serializable(cfg) == "callback" \notin DOMAIN cfg

\* model_config["execute_time"] = now; model_config["model_desc"] = model_desc
Stamp(cfg, now, desc) ==
    [f \in DOMAIN cfg \cup {"execute_time", "model_desc"} |->
        IF f = "execute_time" THEN now
        ELSE IF f = "model_desc" THEN desc
        ELSE cfg[f]]

\* What the environment does to the next open() of the config file.
IOOutcomes == {"ok", "read_fails", "write_fails"}

AbsentFile == [exists |-> FALSE, kind |-> "none", pairs |-> << >>]
EmptyFile == [exists |-> TRUE, kind |-> "empty", pairs |-> << >>]
CorruptFile == [exists |-> TRUE, kind |-> "corrupt", pairs |-> << >>]
ArrayFile == [exists |-> TRUE, kind |-> "array", pairs |-> << >>]
ObjectFile(pairs) == [exists |-> TRUE, kind |-> "object", pairs |-> pairs]

\* os.path.getsize(config_path)
FileSizeIsZero(file) == file.kind = "empty"

\* open(config_path, "r") and json.load(file): "raise" on an I/O error and on text
\* that is no JSON document (an empty file included), else the parsed value.
JsonLoadFile(file, io) ==
    IF io = "read_fails" \/ file.kind \in {"corrupt", "empty", "none"}
    THEN [raised |-> TRUE, kind |-> "none", pairs |-> << >>]
    ELSE [raised |-> FALSE, kind |-> file.kind, pairs |-> file.pairs]

\* save_model_config: [file |-> the file afterwards, ret |-> the value returned]
SaveModelConfigResult(file, key, desc, cfg, now, io) ==
    LET mustRead == file.exists /\ ~FileSizeIsZero(file)
        loaded == IF mustRead THEN JsonLoadFile(file, io)
                  ELSE [raised |-> FALSE, kind |-> "object", pairs |-> << >>]
    IN  IF loaded.raised
        THEN [file |-> file, ret |-> FALSE]
        ELSE IF io = "write_fails"
        THEN [file |-> file, ret |-> FALSE]
        \* open(config_path, "w+") has truncated the file from here on
        ELSE IF loaded.kind # "object"
        THEN [file |-> EmptyFile, ret |-> FALSE]
        ELSE IF ~Serializable(cfg)
        THEN [file |-> CorruptFile, ret |-> FALSE]
        ELSE [file |-> ObjectFile(DictSet(loaded.pairs, key, Stamp(cfg, now, desc))),
              ret |-> TRUE]

save_model_config(key, desc, cfg, now, io) ==
    \E r \in {SaveModelConfigResult(config_file, key, desc, cfg, now, io)} :
        /\ config_file' = r.file
        /\ config_call' = [op |-> "save", key |-> key, io |-> io, ret |-> r.ret,
                           had_key |-> HasKey(config_file.pairs, key)]
        /\ config_saved' =
              IF r.ret
              THEN [k \in DOMAIN config_saved \cup {key} |->
                      IF k = key THEN Stamp(cfg, now, desc) ELSE config_saved[k]]
              ELSE config_saved
        /\ config_all_ok' = (config_all_ok /\ r.ret)

\* A bug variant of GetModelConfigResult: no try/except around the load.
GetModelConfigUncaught(file, key, io) ==
    IF ~file.exists
    THEN [raised |-> "FileNotFoundError", value |-> EmptyMap]
    ELSE LET loaded == JsonLoadFile(file, io)
         IN  IF loaded.raised
             THEN [raised |-> "Exception", value |-> EmptyMap]
             ELSE IF loaded.kind # "object"
             THEN [raised |-> "AttributeError", value |-> EmptyMap]
             ELSE IF HasKey(loaded.pairs, key)
             THEN [raised |-> "none", value |-> Lookup(loaded.pairs, key)]
             ELSE [raised |-> "none", value |-> EmptyMap]

\* get_model_config: [raised |-> the exception that escapes, value |-> the mapping returned]
GetModelConfigResult(file, key, io) ==
    IF ~file.exists
    THEN [raised |-> "FileNotFoundError", value |-> EmptyMap]
    ELSE LET loaded == JsonLoadFile(file, io)
         IN  IF loaded.raised \/ loaded.kind # "object"
             THEN [raised |-> "none", value |-> EmptyMap]
             ELSE IF HasKey(loaded.pairs, key)
             THEN [raised |-> "none", value |-> Lookup(loaded.pairs, key)]
             ELSE [raised |-> "none", value |-> EmptyMap]

get_model_config(key, io) ==
    \E r \in {GetModelConfigResult(config_file, key, io)} :
        /\ config_call' = [op |-> "get", key |-> key, io |-> io, raised |-> r.raised,
                           value |-> r.value]
        /\ UNCHANGED <<config_file, config_saved, config_all_ok>>

(***************************************************************************)
(* Logger factory (tools.py, get_logger). Paths are sequences of           *)
(* characters, so that the suffix test and os.path.dirname are computed.   *)
(***************************************************************************)
DotLog == <<".", "l", "o", "g">>

LogPaths ==
    { << >>,
      <<"a", ".", "l", "o", "g">>,
      <<"d", "/", "a", ".", "l", "o", "g">>,
      <<"d", "/", "e", "/", "a", ".", "l", "o", "g">>,
      <<"x", "/", "y", "/", "b", ".", "l", "o", "g">>,
      <<"d", "/", "a", ".", "t", "x", "t">> }

LoggerNames == {"", "train", "eval"}
LogLevels == {"INFO", "DEBUG"}

\* str.endswith
EndsWith(s, suffix) ==
    /\ Len(s) >= Len(suffix)
    /\ SubSeq(s, Len(s) - Len(suffix) + 1, Len(s)) = suffix

\* p.rfind("/") + 1
LastSlash(p) ==
    IF \E i \in 1..Len(p) : p[i] = "/"
    THEN CHOOSE i \in 1..Len(p) : p[i] = "/" /\ \A j \in (i+1)..Len(p) : p[j] # "/"
    ELSE 0

RECURSIVE RStripSlash(_)
RStripSlash(s) ==
    IF Len(s) > 0 /\ s[Len(s)] = "/" THEN RStripSlash(SubSeq(s, 1, Len(s) - 1)) ELSE s

\* os.path.dirname: everything before the last slash, trailing slashes removed
\* unless it is slashes only; the empty string for a bare file name.
DirName(p) ==
    LET head == SubSeq(p, 1, LastSlash(p))
    IN  IF Len(head) > 0 /\ (\E i \in 1..Len(head) : head[i] # "/")
        THEN RStripSlash(head)
        ELSE head

\* os.path.exists of a directory path: the empty path never exists.
DirExists(dirs, d) == d \in dirs

\* os.mkdir(d): one level only. [raised, dirs]
Mkdir(dirs, d) ==
    IF Len(d) = 0
    THEN [raised |-> "FileNotFoundError", dirs |-> dirs]
    ELSE IF d \in dirs
    THEN [raised |-> "FileExistsError", dirs |-> dirs]
    ELSE IF Len(DirName(d)) > 0 /\ DirName(d) \notin dirs
    THEN [raised |-> "FileNotFoundError", dirs |-> dirs]
    ELSE [raised |-> "none", dirs |-> dirs \cup {d}]

StreamHandler == [kind |-> "stream", path |-> << >>]
FileHandler(path) == [kind |-> "file", path |-> path]

\* The root logger after logging.basicConfig at import time.
RootLogger ==
    [id |-> 1, handlers |-> <<StreamHandler>>, propagate |-> TRUE, level |-> "WARNING"]

LoggerKey(name) == IF name = "" THEN "root" ELSE name

\* logging.getLogger(name): the registered logger of that name, created on first use.
GetLogger(dict, name) ==
    IF LoggerKey(name) \in DOMAIN dict
    THEN dict
    ELSE [k \in DOMAIN dict \cup {LoggerKey(name)} |->
            IF k = LoggerKey(name)
            THEN [id |-> Cardinality(DOMAIN dict) + 1, handlers |-> << >>,
                  propagate |-> TRUE, level |-> "NOTSET"]
            ELSE dict[k]]

FileHandlerCount(logger) ==
    Cardinality({ i \in 1..Len(logger.handlers) : logger.handlers[i].kind = "file" })

\* A bug variant of HasHandlers: the guard never sees the handlers.
HasHandlersNever(logger) == FALSE

\* logger.handlers as a truth value
HasHandlers(logger) == Len(logger.handlers) > 0

\* get_logger: [raised, ret (the id of the logger returned, 0 if none), dirs, files, dict]
GetLoggerResult(dirs, files, dict, name, path, level, open_fails) ==
    IF Len(path) > 0 /\ ~EndsWith(path, DotLog)
    THEN [raised |-> "ValueError", ret |-> 0, dirs |-> dirs, files |-> files, dict |-> dict]
    ELSE
    LET made == IF ~DirExists(dirs, DirName(path))
                THEN Mkdir(dirs, DirName(path))
                ELSE [raised |-> "none", dirs |-> dirs]
    IN  IF made.raised # "none"
        THEN [raised |-> made.raised, ret |-> 0, dirs |-> dirs, files |-> files, dict |-> dict]
        ELSE
        LET key == LoggerKey(name)
            got == GetLogger(dict, name)
            set == [got EXCEPT ![key].propagate = FALSE, ![key].level = level]
        IN  IF HasHandlers(set[key])
            THEN [raised |-> "none", ret |-> set[key].id, dirs |-> made.dirs,
                  files |-> files, dict |-> set]
            ELSE IF open_fails
            THEN [raised |-> "OSError", ret |-> 0, dirs |-> made.dirs,
                  files |-> files, dict |-> set]
            ELSE [raised |-> "none", ret |-> set[key].id, dirs |-> made.dirs,
                  files |-> files \cup {path},
                  dict |-> [set EXCEPT ![key].handlers = Append(@, FileHandler(path))]]

get_logger(name, path, level, open_fails) ==
    \E r \in {GetLoggerResult(fs_dirs, fs_files, loggerDict, name, path, level, open_fails)} :
    LET key == LoggerKey(name)
        before == IF key \in DOMAIN loggerDict THEN Len(loggerDict[key].handlers) ELSE 0
        after == IF key \in DOMAIN r.dict THEN Len(r.dict[key].handlers) ELSE 0
    IN  /\ fs_dirs' = r.dirs
        /\ fs_files' = r.files
        /\ loggerDict' = r.dict
        /\ logger_call' =
              [op |-> "get_logger", name |-> name, path |-> path, open_fails |-> open_fails,
               raised |-> r.raised, ret |-> r.ret,
               prev_id |-> IF key \in DOMAIN loggerDict THEN loggerDict[key].id ELSE 0,
               used_before |-> name \in logger_returned,
               handlers_added |-> after - before,
               parent_existed |-> DirExists(fs_dirs, DirName(path)),
               dir_created |-> r.dirs # fs_dirs,
               logger_touched |-> r.dict # loggerDict]
        /\ logger_returned' =
              IF r.raised = "none" THEN logger_returned \cup {name} ELSE logger_returned

(***************************************************************************)
(* BertConfig (bert_base/__init__.py). Python values carry their type:     *)
(* [int |-> n], [float |-> repr], [str |-> s], [list |-> <<values>>].      *)
(***************************************************************************)
PyInt(n) == [int |-> n]
PyFloat(repr) == [float |-> repr]
PyStr(s) == [str |-> s]
PyList(items) == [list |-> items]

\* BertConfig.__init__: the fields in the order they are assigned.
BertConfigInit(vocab_size, hidden_size, num_hidden_layers, hidden_act, hidden_dropout_prob) ==
    << <<"vocab_size", vocab_size>>,
       <<"hidden_size", hidden_size>>,
       <<"num_hidden_layers", num_hidden_layers>>,
       <<"num_attention_heads", PyInt(12)>>,
       <<"hidden_act", hidden_act>>,
       <<"intermediate_size", PyInt(3072)>>,
       <<"hidden_dropout_prob", hidden_dropout_prob>>,
       <<"attention_prob_dropout_prob", PyFloat("0.1")>>,
       <<"max_position_embeddings", PyInt(512)>>,
       <<"type_vocab_size", PyInt(2)>>,
       <<"initializer_range", PyFloat("0.02")>> >>

\* BertConfig(vocab_size=0): every other field at its default.
BertConfigDefault == BertConfigInit(PyInt(0), PyInt(768), PyInt(12), PyStr("gelu"), PyFloat("0.1"))

BertKnownFields == PairKeys(BertConfigDefault)

\* for (key, value) in json_obj.items(): __dict__[key] = value
RECURSIVE DictUpdate(_, _)
DictUpdate(base, pairs) ==
    IF Len(pairs) = 0 THEN base
    ELSE DictUpdate(DictSet(base, pairs[1][1], pairs[1][2]), Tail(pairs))

\* BertConfig.from_dict
FromDict(json_obj) == DictUpdate(BertConfigDefault, json_obj)

\* Every key a config of the model can hold, in the order sort_keys=True puts them.
SortedKeys ==
    << "architectures", "attention_prob_dropout_prob", "hidden_act", "hidden_dropout_prob",
       "hidden_size", "initializer_range", "intermediate_size", "max_position_embeddings",
       "model_type", "num_attention_heads", "num_hidden_layers", "type_vocab_size",
       "vocab_size" >>

\* json.dumps of one value: the literal written.
RECURSIVE JsonEncode(_)
JsonEncode(v) ==
    IF "int" \in DOMAIN v THEN [number |-> v.int, fraction |-> "none"]
    ELSE IF "float" \in DOMAIN v THEN [number |-> 0, fraction |-> v.float]
    ELSE IF "str" \in DOMAIN v THEN [string |-> v.str]
    ELSE [array |-> [i \in 1..Len(v.list) |-> JsonEncode(v.list[i])]]

\* json.loads of one literal: a number without a fraction is an int, with one a float.
RECURSIVE JsonDecode(_)
JsonDecode(lit) ==
    IF "number" \in DOMAIN lit
    THEN IF lit.fraction = "none" THEN PyInt(lit.number) ELSE PyFloat(lit.fraction)
    ELSE IF "string" \in DOMAIN lit THEN PyStr(lit.string)
    ELSE PyList([i \in 1..Len(lit.array) |-> JsonDecode(lit.array[i])])

\* to_dict: copy.deepcopy(self.__dict__)
ToDict(config) == config

\* A bug variant of ToJsonString: only the constructor's fields are written.
ToJsonStringKnownOnly(config) ==
    LET present == SelectSeq(SortedKeys, LAMBDA k : HasKey(config, k) /\ k \in BertKnownFields)
    IN  [i \in 1..Len(present) |-> <<present[i], JsonEncode(Lookup(config, present[i]))>>]

\* to_json_string: json.dumps(self.to_dict(), indent=2, sort_keys=True)
ToJsonString(config) ==
    LET d == ToDict(config)
        present == SelectSeq(SortedKeys, LAMBDA k : HasKey(d, k))
    IN  [i \in 1..Len(present) |-> <<present[i], JsonEncode(Lookup(d, present[i]))>>]

\* json.loads of an object: a dict in the order of the text.
JsonLoads(text) == [i \in 1..Len(text) |-> <<text[i][1], JsonDecode(text[i][2])>>]

\* The dicts handed to from_dict (as json.load would return them).
JsonObjects ==
    { << >>,
      << <<"vocab_size", PyInt(21128)>>, <<"hidden_size", PyInt(768)>>,
         <<"num_hidden_layers", PyInt(12)>> >>,
      << <<"model_type", PyStr("bert")>>, <<"vocab_size", PyInt(5)>> >>,
      << <<"architectures", PyList(<<PyStr("BertForMaskedLM")>>)>>,
         <<"hidden_size", PyInt(4)>>, <<"hidden_dropout_prob", PyFloat("0.0")>> >> }

NoObject == << >>

BertConfig_init(vocab_size, hidden_size, num_hidden_layers, hidden_act, hidden_dropout_prob) ==
    /\ bert_config' = BertConfigInit(vocab_size, hidden_size, num_hidden_layers,
                                     hidden_act, hidden_dropout_prob)
    /\ bert_json' = NoObject
    /\ bert_back' = NoObject

from_dict(json_obj) ==
    /\ bert_config' = FromDict(json_obj)
    /\ bert_json' = NoObject
    /\ bert_back' = NoObject

to_json_string ==
    /\ bert_config # NoObject
    /\ bert_json' = ToJsonString(bert_config)
    /\ bert_back' = NoObject
    /\ UNCHANGED bert_config

\* BertConfig.from_dict(json.loads(text)) on the text to_json_string returned
from_json_string ==
    /\ bert_json # NoObject
    /\ bert_back' = FromDict(JsonLoads(bert_json))
    /\ UNCHANGED <<bert_config, bert_json>>

(***************************************************************************)
(* BertOutput (tensorflow/layers.py). A flag is "False", "True" or the     *)
(* name of an activation; every value but "False" is truthy.               *)
(***************************************************************************)
HeadFlags == {"False", "True", "sigmoid"}

Truthy(flag) == flag # "False"

\* The keyword arguments __init__ reads, and one it hands on to the base class.
HeadKwargs == {"hidden_size", "embedding_size", "hidden_act", "layer_norm_eps",
               "token_embeddings"}
MlmKwargs == {"embedding_size", "hidden_act", "layer_norm_eps", "token_embeddings"}
AllKwargs == HeadKwargs \cup {"name"}

PyNone == [none |-> TRUE]

\* BertOutput.__init__ with the keyword arguments named in kwargs:
\* [raised, layer (the attributes set, NoObject when it raised)]
BertOutputInitResult(with_pool, with_nsp, with_mlm, kwargs) ==
    IF ~(Truthy(with_pool) \/ Truthy(with_mlm))
    THEN [raised |-> "AssertionError", layer |-> NoObject]
    ELSE IF Truthy(with_pool) /\ "hidden_size" \notin kwargs
    THEN [raised |-> "AssertionError", layer |-> NoObject]
    ELSE IF Truthy(with_mlm) /\ ~(MlmKwargs \subseteq kwargs)
    THEN [raised |-> "AssertionError", layer |-> NoObject]
    \* del kwargs[...] for each of the five keys, whichever head was requested
    ELSE IF ~(HeadKwargs \subseteq kwargs)
    THEN [raised |-> "KeyError", layer |-> NoObject]
    ELSE [raised |-> "none",
          layer |-> [with_pool |-> with_pool, with_nsp |-> with_nsp, with_mlm |-> with_mlm,
                     pool_activation |-> IF ~Truthy(with_pool) THEN "unset"
                                         ELSE IF with_pool = "True" THEN "tanh"
                                         ELSE with_pool,
                     mlm_activation |-> IF ~Truthy(with_mlm) THEN "unset"
                                        ELSE IF with_mlm = "True" THEN "softmax"
                                        ELSE with_mlm,
                     base_kwargs |-> kwargs \ HeadKwargs,
                     sublayers |-> {}]]

\* BertOutput.build: the sublayers created
BertOutputBuild(layer) ==
    (IF Truthy(layer.with_pool)
     THEN {"pooler", "pooler-dense"} \cup (IF layer.with_nsp THEN {"nsp-prob"} ELSE {})
     ELSE {})
    \cup
    (IF Truthy(layer.with_mlm)
     THEN {"mlm-dense", "mlm-norm", "mlm-bias", "mlm-activation"}
     ELSE {})

\* The list BertOutput.call has built when it reaches its last statement.
BertOutputCallOutputs(layer) ==
    (IF Truthy(layer.with_pool)
     THEN IF layer.with_nsp THEN <<"nsp_prob">> ELSE <<"pooled">>
     ELSE << >>)
    \o
    (IF Truthy(layer.with_mlm) THEN <<"mlm">> ELSE << >>)

\* BertOutput.call: the body ends after the last append, without a return statement,
\* so the call evaluates to None. [outputs, ret]
BertOutputCallResult(layer) ==
    [outputs |-> BertOutputCallOutputs(layer), ret |-> PyNone]

BertOutput_init(with_pool, with_nsp, with_mlm, kwargs) ==
    \E r \in {BertOutputInitResult(with_pool, with_nsp, with_mlm, kwargs)} :
        /\ output_layer' = r.layer
        /\ output_call' = [op |-> "init", with_pool |-> with_pool, with_nsp |-> with_nsp,
                           with_mlm |-> with_mlm, kwargs |-> kwargs, raised |-> r.raised]

\* layer(inputs): Keras builds the layer on its first use, then runs call.
BertOutput_call ==
    /\ output_layer # NoObject
    /\ \E r \in {BertOutputCallResult(output_layer)} :
        /\ output_layer' = [output_layer EXCEPT !.sublayers = BertOutputBuild(output_layer)]
        /\ output_call' = [op |-> "call", outputs |-> r.outputs, ret |-> r.ret]

(***************************************************************************)
(* ProgressBar (tools.py). Strings that are built from repeated symbols    *)
(* are sequences of characters.                                            *)
(***************************************************************************)
MaxTotal == 2
MaxWidth == 2
MaxStepTime == 2

Totals == 0..MaxTotal
Nums == {1, 2}
Widths == 1..MaxWidth
MetricsStrings == {"", "- loss: 0.5000 "}
StepTimes == 1..MaxStepTime

\* symbol * n: the empty string for n <= 0
Repeat(symbol, n) == [i \in 1..n |-> symbol]

\* len(str(total)) for total >= 0
RECURSIVE Digits(_)
Digits(n) == IF n < 10 THEN 1 ELSE 1 + Digits(n \div 10)

\* ProgressBar.__init__
ProgressBarInit(total, num, width) ==
    [args |-> EmptyMap, metrics |-> "", total |-> total, num |-> num, width |-> width,
     symbol |-> "=", remain |-> ".", pad |-> Digits(total)]

\* ProgressBar.__call__: [raised, bar (the object afterwards)]
\* percent = current / float(total); size = int(width * percent)
ProgressBarCallResult(self, current, metrics) ==
    LET noted == [self EXCEPT !.metrics = metrics]
    IN  IF self.total = 0
        THEN [raised |-> "ZeroDivisionError", bar |-> noted]
        ELSE
        LET size == (self.width * current) \div self.total
            text == <<"[">> \o Repeat(self.symbol, size) \o <<">">>
                    \o Repeat(self.remain, self.width - size - 1) \o <<"]">>
        IN  [raised |-> "none",
             bar |-> [noted EXCEPT !.args =
                        [total |-> self.total * self.num,
                         bar |-> text,
                         current |-> current * self.num,
                         percent |-> (100 * current) \div self.total,
                         metrics |-> metrics]]]

\* args[key] = value on a dict kept as a function
ArgsSet(args, key, value) ==
    [k \in DOMAIN args \cup {key} |-> IF k = key THEN value ELSE args[k]]

\* The keys the DONE format reads.
DoneKeys == {"current", "total", "bar", "time", "metrics"}

NoLine == << >>

\* ProgressBar.done: [raised, line (the text returned, by its fields), bar]
\* The two assignments are made before the format is applied.
ProgressBarDoneResult(self, step_time) ==
    LET full == <<"[">> \o Repeat(self.symbol, self.width) \o <<"]">>
        args == ArgsSet(ArgsSet(self.args, "bar", full), "time", step_time)
        after == [self EXCEPT !.args = args]
    IN  IF ~(DoneKeys \subseteq DOMAIN args)
        THEN [raised |-> "KeyError", line |-> NoLine, bar |-> after]
        ELSE [raised |-> "none",
              line |-> [current |-> args.current, total |-> args.total, bar |-> args.bar,
                        time |-> args.time, metrics |-> args.metrics],
              bar |-> after]

NotCalled == [called |-> FALSE]

ProgressBar_init(total, num, width) ==
    /\ bar = NoObject
    /\ bar' = ProgressBarInit(total, num, width)
    /\ bar_call' = [op |-> "init", raised |-> "none"]
    /\ bar_last' = NotCalled

ProgressBar_call(current, metrics) ==
    /\ bar # NoObject
    /\ \E r \in {ProgressBarCallResult(bar, current, metrics)} :
        /\ bar' = r.bar
        /\ bar_call' = [op |-> "call", raised |-> r.raised]
        /\ bar_last' = IF r.raised = "none"
                       THEN [called |-> TRUE, current |-> current * bar.num,
                             total |-> bar.total * bar.num, metrics |-> metrics]
                       ELSE bar_last

\* ProgressBar.reset: self.__init__ again
ProgressBar_reset(total, num, width) ==
    /\ bar # NoObject
    /\ bar' = ProgressBarInit(total, num, width)
    /\ bar_call' = [op |-> "reset", raised |-> "none"]
    /\ bar_last' = NotCalled

ProgressBar_done(step_time) ==
    /\ bar # NoObject
    /\ \E r \in {ProgressBarDoneResult(bar, step_time)} :
        /\ bar' = r.bar
        /\ bar_call' = [op |-> "done", raised |-> r.raised, line |-> r.line,
                        step_time |-> step_time]
        /\ UNCHANGED bar_last

(***************************************************************************)
(* BertSelfAttention (tensorflow/layers.py): splitting into heads. A       *)
(* tensor is [shape, data]: data is the row-major sequence of its          *)
(* elements, and an input's element is its own flat index, so that every   *)
(* element can be followed through reshape and transpose.                  *)
(***************************************************************************)
MaxBatch == 3
MaxSeq == 2
MaxHeads == 2
MaxHeadSize == 2

NoTensor == [error |-> "none", shape |-> << >>, data |-> << >>]
ErrorTensor(what) == [error |-> what, shape |-> << >>, data |-> << >>]
Tensor(shape, data) == [error |-> "none", shape |-> shape, data |-> data]

\* The input tensor of shape (batch, seq, features).
InputTensor(batch, seq, features) ==
    Tensor(<<batch, seq, features>>, [i \in 1..(batch * seq * features) |-> i])

\* tf.reshape(tensor, (d0, -1, d2, d3)): the free dimension is inferred, and the
\* call fails when the element count is no multiple of the fixed dimensions.
Reshape4(tensor, d0, d2, d3) ==
    IF tensor.error # "none" THEN tensor
    ELSE IF Len(tensor.data) % (d0 * d2 * d3) # 0
    THEN ErrorTensor("InvalidArgumentError")
    ELSE Tensor(<<d0, Len(tensor.data) \div (d0 * d2 * d3), d2, d3>>, tensor.data)

\* tf.reshape(tensor, (d0, -1, d2))
Reshape3(tensor, d0, d2) ==
    IF tensor.error # "none" THEN tensor
    ELSE IF Len(tensor.data) % (d0 * d2) # 0
    THEN ErrorTensor("InvalidArgumentError")
    ELSE Tensor(<<d0, Len(tensor.data) \div (d0 * d2), d2>>, tensor.data)

\* A bug variant of Transpose0213: the axes are relabelled and the data left in place.
Transpose0213ShapeOnly(tensor) ==
    IF tensor.error # "none" THEN tensor
    ELSE Tensor(<<tensor.shape[1], tensor.shape[3], tensor.shape[2], tensor.shape[4]>>,
                tensor.data)

\* tf.transpose(tensor, perm=[0, 2, 1, 3]) of a rank-4 tensor: the element at
\* [i0, i1, i2, i3] of the result is the element at [i0, i2, i1, i3] of the input.
Transpose0213(tensor) ==
    IF tensor.error # "none" THEN tensor
    ELSE
    LET a == tensor.shape[1]
        b == tensor.shape[2]
        c == tensor.shape[3]
        d == tensor.shape[4]
        Source(n) ==
            LET i0 == n \div (c * b * d)
                i1 == (n \div (b * d)) % c
                i2 == (n \div d) % b
                i3 == n % d
            IN  ((i0 * b + i2) * c + i1) * d + i3
    IN  Tensor(<<a, c, b, d>>,
               [n \in 1..Len(tensor.data) |-> tensor.data[Source(n - 1) + 1]])

\* The key_size argument of the constructor: None (the default) or a size.
KeySizeArgs == {PyNone} \cup {PyInt(k) : k \in 1..MaxHeadSize}

\* BertSelfAttention.__init__, hidden_size left at its default None
BertSelfAttentionInit(num_heads, head_size, batch_size, key_size) ==
    [num_heads |-> num_heads, head_size |-> head_size, batch_size |-> batch_size,
     key_size |-> IF key_size # PyNone THEN key_size.int ELSE head_size,
     hidden_size |-> num_heads * head_size]

\* BertSelfAttention.transpose_for_scores
TransposeForScores(self, input_tensor, head_size) ==
    Transpose0213(Reshape4(input_tensor, self.batch_size, self.num_heads, head_size))

\* Merging the heads back, step 9 of the attention algorithm: the inverse
\* transpose, then a reshape to (batch_size, -1, num_heads * head_size) with the
\* batch_size the layer passes on.
MergeHeads(self, tensor, head_size) ==
    Reshape3(Transpose0213(tensor), self.batch_size, self.num_heads * head_size)

\* keras.layers.Dense(units) applied to a (batch, seq, features) tensor: the last
\* axis becomes units, the values are new ones.
Dense(tensor, units) == InputTensor(tensor.shape[1], tensor.shape[2], units)

\* The head size BertSelfAttention.call splits query and key with.
QueryKeySplitSize(self) == self.key_size

\* The attention_head_size BertSelfAttention.call hands to scaled_dot_product_attention.
AttentionHeadSizeArg(self) == self.head_size

\* scaled_dot_product_attention, steps 3 and 4 of the attention algorithm: the
\* scores are query . key^T per head, which needs equal per-head sizes, scaled by
\* 1/sqrt(d) for the per-head size d the caller names as attention_head_size.
\* [error, scores_shape, scale_dim]
ScaledDotProductAttention(query, key, value, batch_size, hidden_size, attention_head_size) ==
    IF query.error # "none" \/ key.error # "none" \/ value.error # "none"
    THEN [error |-> "InvalidArgumentError", scores_shape |-> << >>, scale_dim |-> 0]
    ELSE IF query.shape[4] # key.shape[4]
    THEN [error |-> "InvalidArgumentError", scores_shape |-> << >>, scale_dim |-> 0]
    ELSE [error |-> "none",
          scores_shape |-> <<query.shape[1], query.shape[2], query.shape[3], key.shape[3]>>,
          scale_dim |-> attention_head_size]

\* BertSelfAttention.call on query = key = value of shape (batch, seq, hidden_size)
BertSelfAttentionCallResult(self, batch, seq) ==
    LET inputs == InputTensor(batch, seq, self.hidden_size)
        query == TransposeForScores(self, Dense(inputs, self.key_size * self.num_heads),
                                    QueryKeySplitSize(self))
        key == TransposeForScores(self, Dense(inputs, self.key_size * self.num_heads),
                                  QueryKeySplitSize(self))
        value == TransposeForScores(self, Dense(inputs, self.head_size * self.num_heads),
                                    self.head_size)
        attention == ScaledDotProductAttention(query, key, value, self.batch_size,
                                               self.hidden_size, AttentionHeadSizeArg(self))
    IN  [op |-> "call", error |-> attention.error, query_shape |-> query.shape,
         value_shape |-> value.shape, scale_dim |-> attention.scale_dim]

BertSelfAttention_init(num_heads, head_size, batch_size, key_size) ==
    /\ attn = NoObject
    /\ attn' = BertSelfAttentionInit(num_heads, head_size, batch_size, key_size)
    /\ UNCHANGED <<attn_input, attn_split, attn_merged, attn_call>>

BertSelfAttention_call(batch, seq) ==
    /\ attn # NoObject
    /\ \E r \in {BertSelfAttentionCallResult(attn, batch, seq)} : attn_call' = r
    /\ UNCHANGED <<attn, attn_input, attn_split, attn_merged>>

transpose_for_scores(batch, seq) ==
    /\ attn # NoObject
    /\ attn_input' = InputTensor(batch, seq, attn.num_heads * attn.head_size)
    /\ attn_split' = TransposeForScores(attn, attn_input', attn.head_size)
    /\ attn_merged' = NoTensor
    /\ UNCHANGED <<attn, attn_call>>

merge_heads ==
    /\ attn # NoObject
    /\ attn_split # NoTensor
    /\ attn_merged = NoTensor
    /\ attn_merged' = MergeHeads(attn, attn_split, attn.head_size)
    /\ UNCHANGED <<attn, attn_input, attn_split, attn_call>>

(***************************************************************************)
(* PositionEmbedding (tensorflow/layers.py): the rows of the embedding     *)
(* table that call gathers. hierarchical is "False", "True" (alpha 0.4)    *)
(* or an alpha of its own; every value but "False" is truthy. merge_mode   *)
(* combines the looked-up rows with the inputs after the lookups and is    *)
(* left out.                                                               *)
(***************************************************************************)
MaxInputDim == 3

HierarchicalValues == {"False", "True", "0.2"}
Devices == {"cpu", "gpu"}

\* PositionEmbedding.__init__ and build: the table has input_dim rows.
PositionEmbeddingInit(input_dim, hierarchical, custom_position_ids) ==
    [input_dim |-> input_dim, hierarchical |-> hierarchical,
     custom_position_ids |-> custom_position_ids]

\* tf.range(start=0, limit=seq_len, delta=1)
RangeIds(seq_len) == [i \in 1..seq_len |-> i - 1]

\* position_ids // self.input_dim
HierIndexX(position, input_dim) == position \div input_dim

\* A bug variant of HierIndexY: the remainder is taken by one more than the table size.
HierIndexYOffByOne(position, input_dim) == position % (input_dim + 1)

\* position_ids % self.input_dim
HierIndexY(position, input_dim) == position % input_dim

ZeroRow == -1

\* tf.gather of one row of a table of input_dim rows: an index out of range is an
\* error on a CPU and a row of zeros on a GPU. [raised, row]
Gather(input_dim, index, device) ==
    IF index \in 0..(input_dim - 1) THEN [raised |-> "none", row |-> index]
    ELSE IF device = "cpu" THEN [raised |-> "InvalidArgumentError", row |-> ZeroRow]
    ELSE [raised |-> "none", row |-> ZeroRow]

\* PositionEmbedding.call, the lookups: [raised, lookups], one lookup per position:
\* [x, y] with hierarchical decomposition, [row] without.
PositionEmbeddingCallResult(self, position_ids, device) ==
    IF Truthy(self.hierarchical)
    THEN LET gx == [i \in 1..Len(position_ids) |->
                      Gather(self.input_dim, HierIndexX(position_ids[i], self.input_dim), device)]
             gy == [i \in 1..Len(position_ids) |->
                      Gather(self.input_dim, HierIndexY(position_ids[i], self.input_dim), device)]
             index == [i \in 1..Len(position_ids) |->
                      [x |-> HierIndexX(position_ids[i], self.input_dim),
                       y |-> HierIndexY(position_ids[i], self.input_dim)]]
         IN  IF \E i \in 1..Len(position_ids) : gx[i].raised # "none" \/ gy[i].raised # "none"
             THEN [raised |-> "InvalidArgumentError", index |-> index, lookups |-> << >>]
             ELSE [raised |-> "none", index |-> index,
                   lookups |-> [i \in 1..Len(position_ids) |->
                                  [x |-> gx[i].row, y |-> gy[i].row]]]
    ELSE IF self.custom_position_ids
    THEN LET g == [i \in 1..Len(position_ids) |->
                     Gather(self.input_dim, position_ids[i], device)]
         IN  IF \E i \in 1..Len(position_ids) : g[i].raised # "none"
             THEN [raised |-> "InvalidArgumentError", index |-> << >>, lookups |-> << >>]
             ELSE [raised |-> "none", index |-> << >>,
                   lookups |-> [i \in 1..Len(position_ids) |-> [row |-> g[i].row]]]
    \* self.embeddings[None, :seq_len]: a slice stops at the end of the table
    ELSE [raised |-> "none", index |-> << >>,
          lookups |-> [i \in 1..(IF Len(position_ids) < self.input_dim
                                 THEN Len(position_ids) ELSE self.input_dim) |->
                         [row |-> i - 1]]]

PositionEmbedding_init(input_dim, hierarchical, custom_position_ids) ==
    /\ pos_layer = NoObject
    /\ pos_layer' = PositionEmbeddingInit(input_dim, hierarchical, custom_position_ids)
    /\ UNCHANGED pos_call

\* call with custom position ids: two positions, each up to input_dim^2
PositionEmbedding_call_custom(p1, p2, device) ==
    /\ pos_layer # NoObject
    /\ pos_layer.custom_position_ids
    /\ p1 <= pos_layer.input_dim * pos_layer.input_dim
    /\ p2 <= pos_layer.input_dim * pos_layer.input_dim
    /\ \E r \in {PositionEmbeddingCallResult(pos_layer, <<p1, p2>>, device)} :
          pos_call' = [op |-> "call", position_ids |-> <<p1, p2>>, device |-> device,
                       raised |-> r.raised, index |-> r.index, lookups |-> r.lookups]
    /\ UNCHANGED pos_layer

\* call without custom position ids: the positions 0 .. seq_len - 1
PositionEmbedding_call(seq_len, device) ==
    /\ pos_layer # NoObject
    /\ ~pos_layer.custom_position_ids
    /\ seq_len <= pos_layer.input_dim * pos_layer.input_dim + 1
    /\ \E r \in {PositionEmbeddingCallResult(pos_layer, RangeIds(seq_len), device)} :
          pos_call' = [op |-> "call", position_ids |-> RangeIds(seq_len), device |-> device,
                       raised |-> r.raised, index |-> r.index, lookups |-> r.lookups]
    /\ UNCHANGED pos_layer

(***************************************************************************)
(* Specifications: one per part of the program; the other parts stay in    *)
(* their initial state.                                                    *)
(***************************************************************************)
InitConfig ==
    /\ config_file \in {AbsentFile, EmptyFile, CorruptFile, ArrayFile}
    /\ config_call = [op |-> "none"]
    /\ config_saved = EmptyMap
    /\ config_all_ok = TRUE
    /\ fs_dirs = {}
    /\ fs_files = {}
    /\ loggerDict = [k \in {"root"} |-> RootLogger]
    /\ logger_call = [op |-> "none"]
    /\ logger_returned = {}
    /\ bert_config = NoObject
    /\ bert_json = NoObject
    /\ bert_back = NoObject
    /\ output_layer = NoObject
    /\ output_call = [op |-> "none"]
    /\ bar = NoObject
    /\ bar_call = [op |-> "none"]
    /\ bar_last = NotCalled
    /\ attn = NoObject
    /\ attn_input = NoTensor
    /\ attn_split = NoTensor
    /\ attn_merged = NoTensor
    /\ attn_call = [op |-> "none"]
    /\ pos_layer = NoObject
    /\ pos_call = [op |-> "none"]

NextConfig ==
    \/ \E key \in Keys, desc \in Descs, cfg \in Configs, now \in Times, io \in IOOutcomes :
          save_model_config(key, desc, cfg, now, io)
          /\ UNCHANGED <<loggerVars, bertVars, outputVars, barVars, attnVars, posVars>>
    \/ \E key \in Keys, io \in {"ok", "read_fails"} :
          get_model_config(key, io)
          /\ UNCHANGED <<loggerVars, bertVars, outputVars, barVars, attnVars, posVars>>

SpecConfig == InitConfig /\ [][NextConfig]_vars

InitLogger ==
    /\ config_file = AbsentFile
    /\ config_call = [op |-> "none"]
    /\ config_saved = EmptyMap
    /\ config_all_ok = TRUE
    /\ fs_dirs = {}
    /\ fs_files = {}
    /\ loggerDict = [k \in {"root"} |-> RootLogger]
    /\ logger_call = [op |-> "none"]
    /\ logger_returned = {}
    /\ bert_config = NoObject
    /\ bert_json = NoObject
    /\ bert_back = NoObject
    /\ output_layer = NoObject
    /\ output_call = [op |-> "none"]
    /\ bar = NoObject
    /\ bar_call = [op |-> "none"]
    /\ bar_last = NotCalled
    /\ attn = NoObject
    /\ attn_input = NoTensor
    /\ attn_split = NoTensor
    /\ attn_merged = NoTensor
    /\ attn_call = [op |-> "none"]
    /\ pos_layer = NoObject
    /\ pos_call = [op |-> "none"]

NextLogger ==
    \/ \E name \in LoggerNames, path \in LogPaths, level \in LogLevels, open_fails \in BOOLEAN :
          get_logger(name, path, level, open_fails)
          /\ UNCHANGED <<configVars, bertVars, outputVars, barVars, attnVars, posVars>>

SpecLogger == InitLogger /\ [][NextLogger]_vars

InitBert ==
    /\ config_file = AbsentFile
    /\ config_call = [op |-> "none"]
    /\ config_saved = EmptyMap
    /\ config_all_ok = TRUE
    /\ fs_dirs = {}
    /\ fs_files = {}
    /\ loggerDict = [k \in {"root"} |-> RootLogger]
    /\ logger_call = [op |-> "none"]
    /\ logger_returned = {}
    /\ bert_config = NoObject
    /\ bert_json = NoObject
    /\ bert_back = NoObject
    /\ output_layer = NoObject
    /\ output_call = [op |-> "none"]
    /\ bar = NoObject
    /\ bar_call = [op |-> "none"]
    /\ bar_last = NotCalled
    /\ attn = NoObject
    /\ attn_input = NoTensor
    /\ attn_split = NoTensor
    /\ attn_merged = NoTensor
    /\ attn_call = [op |-> "none"]
    /\ pos_layer = NoObject
    /\ pos_call = [op |-> "none"]

NextBert ==
    \/ \E vocab_size \in {PyInt(21128), PyInt(8), PyInt(0)}, hidden_size \in {PyInt(768), PyInt(4)},
          num_hidden_layers \in {PyInt(12), PyInt(2)}, hidden_act \in {PyStr("gelu"), PyStr("relu")},
          hidden_dropout_prob \in {PyFloat("0.1"), PyFloat("0.0")} :
          BertConfig_init(vocab_size, hidden_size, num_hidden_layers, hidden_act,
                          hidden_dropout_prob)
          /\ UNCHANGED <<configVars, loggerVars, outputVars, barVars, attnVars, posVars>>
    \/ \E json_obj \in JsonObjects :
          from_dict(json_obj)
          /\ UNCHANGED <<configVars, loggerVars, outputVars, barVars, attnVars, posVars>>
    \/ to_json_string
          /\ UNCHANGED <<configVars, loggerVars, outputVars, barVars, attnVars, posVars>>
    \/ from_json_string
          /\ UNCHANGED <<configVars, loggerVars, outputVars, barVars, attnVars, posVars>>

SpecBert == InitBert /\ [][NextBert]_vars

InitOutput ==
    /\ config_file = AbsentFile
    /\ config_call = [op |-> "none"]
    /\ config_saved = EmptyMap
    /\ config_all_ok = TRUE
    /\ fs_dirs = {}
    /\ fs_files = {}
    /\ loggerDict = [k \in {"root"} |-> RootLogger]
    /\ logger_call = [op |-> "none"]
    /\ logger_returned = {}
    /\ bert_config = NoObject
    /\ bert_json = NoObject
    /\ bert_back = NoObject
    /\ output_layer = NoObject
    /\ output_call = [op |-> "none"]
    /\ bar = NoObject
    /\ bar_call = [op |-> "none"]
    /\ bar_last = NotCalled
    /\ attn = NoObject
    /\ attn_input = NoTensor
    /\ attn_split = NoTensor
    /\ attn_merged = NoTensor
    /\ attn_call = [op |-> "none"]
    /\ pos_layer = NoObject
    /\ pos_call = [op |-> "none"]

NextOutput ==
    \/ \E with_pool \in HeadFlags, with_nsp \in BOOLEAN, with_mlm \in HeadFlags,
          kwargs \in SUBSET AllKwargs :
          BertOutput_init(with_pool, with_nsp, with_mlm, kwargs)
          /\ UNCHANGED <<configVars, loggerVars, bertVars, barVars, attnVars, posVars>>
    \/ BertOutput_call
          /\ UNCHANGED <<configVars, loggerVars, bertVars, barVars, attnVars, posVars>>

SpecOutput == InitOutput /\ [][NextOutput]_vars

InitBar ==
    /\ config_file = AbsentFile
    /\ config_call = [op |-> "none"]
    /\ config_saved = EmptyMap
    /\ config_all_ok = TRUE
    /\ fs_dirs = {}
    /\ fs_files = {}
    /\ loggerDict = [k \in {"root"} |-> RootLogger]
    /\ logger_call = [op |-> "none"]
    /\ logger_returned = {}
    /\ bert_config = NoObject
    /\ bert_json = NoObject
    /\ bert_back = NoObject
    /\ output_layer = NoObject
    /\ output_call = [op |-> "none"]
    /\ bar = NoObject
    /\ bar_call = [op |-> "none"]
    /\ bar_last = NotCalled
    /\ attn = NoObject
    /\ attn_input = NoTensor
    /\ attn_split = NoTensor
    /\ attn_merged = NoTensor
    /\ attn_call = [op |-> "none"]
    /\ pos_layer = NoObject
    /\ pos_call = [op |-> "none"]

NextBar ==
    \/ \E total \in Totals, num \in Nums, width \in Widths :
          ProgressBar_init(total, num, width)
          /\ UNCHANGED <<configVars, loggerVars, bertVars, outputVars, attnVars, posVars>>
    \/ \E current \in Totals, metrics \in MetricsStrings :
          ProgressBar_call(current, metrics)
          /\ UNCHANGED <<configVars, loggerVars, bertVars, outputVars, attnVars, posVars>>
    \/ \E total \in Totals, num \in Nums, width \in Widths :
          ProgressBar_reset(total, num, width)
          /\ UNCHANGED <<configVars, loggerVars, bertVars, outputVars, attnVars, posVars>>
    \/ \E step_time \in StepTimes :
          ProgressBar_done(step_time)
          /\ UNCHANGED <<configVars, loggerVars, bertVars, outputVars, attnVars, posVars>>

SpecBar == InitBar /\ [][NextBar]_vars

InitAttn ==
    /\ config_file = AbsentFile
    /\ config_call = [op |-> "none"]
    /\ config_saved = EmptyMap
    /\ config_all_ok = TRUE
    /\ fs_dirs = {}
    /\ fs_files = {}
    /\ loggerDict = [k \in {"root"} |-> RootLogger]
    /\ logger_call = [op |-> "none"]
    /\ logger_returned = {}
    /\ bert_config = NoObject
    /\ bert_json = NoObject
    /\ bert_back = NoObject
    /\ output_layer = NoObject
    /\ output_call = [op |-> "none"]
    /\ bar = NoObject
    /\ bar_call = [op |-> "none"]
    /\ bar_last = NotCalled
    /\ attn = NoObject
    /\ attn_input = NoTensor
    /\ attn_split = NoTensor
    /\ attn_merged = NoTensor
    /\ attn_call = [op |-> "none"]
    /\ pos_layer = NoObject
    /\ pos_call = [op |-> "none"]

NextAttn ==
    \/ \E num_heads \in 1..MaxHeads, head_size \in 1..MaxHeadSize, batch_size \in 1..MaxBatch,
          key_size \in KeySizeArgs :
          BertSelfAttention_init(num_heads, head_size, batch_size, key_size)
          /\ UNCHANGED <<configVars, loggerVars, bertVars, outputVars, barVars, posVars>>
    \/ \E batch \in 1..MaxBatch, seq \in 1..MaxSeq :
          transpose_for_scores(batch, seq)
          /\ UNCHANGED <<configVars, loggerVars, bertVars, outputVars, barVars, posVars>>
    \/ merge_heads
          /\ UNCHANGED <<configVars, loggerVars, bertVars, outputVars, barVars, posVars>>
    \/ \E batch \in 1..MaxBatch, seq \in 1..MaxSeq :
          BertSelfAttention_call(batch, seq)
          /\ UNCHANGED <<configVars, loggerVars, bertVars, outputVars, barVars, posVars>>

SpecAttn == InitAttn /\ [][NextAttn]_vars

InitPos ==
    /\ config_file = AbsentFile
    /\ config_call = [op |-> "none"]
    /\ config_saved = EmptyMap
    /\ config_all_ok = TRUE
    /\ fs_dirs = {}
    /\ fs_files = {}
    /\ loggerDict = [k \in {"root"} |-> RootLogger]
    /\ logger_call = [op |-> "none"]
    /\ logger_returned = {}
    /\ bert_config = NoObject
    /\ bert_json = NoObject
    /\ bert_back = NoObject
    /\ output_layer = NoObject
    /\ output_call = [op |-> "none"]
    /\ bar = NoObject
    /\ bar_call = [op |-> "none"]
    /\ bar_last = NotCalled
    /\ attn = NoObject
    /\ attn_input = NoTensor
    /\ attn_split = NoTensor
    /\ attn_merged = NoTensor
    /\ attn_call = [op |-> "none"]
    /\ pos_layer = NoObject
    /\ pos_call = [op |-> "none"]

NextPos ==
    \/ \E input_dim \in 1..MaxInputDim, hierarchical \in HierarchicalValues,
          custom_position_ids \in BOOLEAN :
          PositionEmbedding_init(input_dim, hierarchical, custom_position_ids)
          /\ UNCHANGED <<configVars, loggerVars, bertVars, outputVars, barVars, attnVars>>
    \/ \E p1 \in 0..(MaxInputDim * MaxInputDim), p2 \in 0..(MaxInputDim * MaxInputDim),
          device \in Devices :
          PositionEmbedding_call_custom(p1, p2, device)
          /\ UNCHANGED <<configVars, loggerVars, bertVars, outputVars, barVars, attnVars>>
    \/ \E seq_len \in 1..(MaxInputDim * MaxInputDim + 1), device \in Devices :
          PositionEmbedding_call(seq_len, device)
          /\ UNCHANGED <<configVars, loggerVars, bertVars, outputVars, barVars, attnVars>>

SpecPos == InitPos /\ [][NextPos]_vars

(***************************************************************************)
(* Claims about the model-config persistence.                              *)
(***************************************************************************)
GetOnMissingFile == config_call.op = "get" /\ ~config_file.exists

GetOnUnreadableFile ==
    /\ config_call.op = "get"
    /\ config_file.exists
    /\ (config_call.io = "read_fails" \/ config_file.kind \in {"corrupt", "empty"})

GetOnFileWithoutKey ==
    /\ config_call.op = "get"
    /\ config_file.exists
    /\ config_call.io = "ok"
    /\ config_file.kind \in {"object", "array"}
    /\ ~HasKey(config_file.pairs, config_call.key)

GetReturnedEmpty == config_call.raised = "none" /\ config_call.value = EmptyMap

\* C1: as long as every save_model_config call has returned True, the file holds
\* exactly one entry per key ever saved, and the entry of each key is the stamped
\* config of the last save under that key (so a save under one key leaves the
\* entries of the other keys as they were).
C1_OneEntryPerSavedKey ==
    config_all_ok =>
        /\ NoDupKeys(config_file.pairs)
        /\ PairKeys(config_file.pairs) = DOMAIN config_saved
        /\ \A k \in DOMAIN config_saved :
              Lookup(config_file.pairs, k) = config_saved[k]
        /\ (DOMAIN config_saved # {} => config_file.kind = "object")

\* C1 witness: a successful save has overwritten the entry of a key that was
\* already in a file holding two keys.
C1_Witness ==
    /\ config_all_ok
    /\ config_call.op = "save" /\ config_call.ret /\ config_call.had_key
    /\ Len(config_file.pairs) = 2
    /\ DOMAIN config_saved = Keys
    /\ config_saved[config_call.key].lr # config_saved[CHOOSE k \in Keys : k # config_call.key].lr

\* C2 (as claimed): get_model_config returns the empty mapping and raises nothing
\* when the file does not exist, when it cannot be read or parsed, and when it has
\* no entry for the key.
C2_EmptyInEveryCase ==
    (GetOnMissingFile \/ GetOnUnreadableFile \/ GetOnFileWithoutKey) => GetReturnedEmpty

\* C2 (amended): get_model_config returns the empty mapping and raises nothing when
\* the file exists but cannot be read or parsed, and when it is readable but has no
\* entry for the key; when the file does not exist it raises FileNotFoundError.
C2_EmptyUnlessFileMissing ==
    /\ (GetOnUnreadableFile \/ GetOnFileWithoutKey) => GetReturnedEmpty
    /\ GetOnMissingFile => config_call.raised = "FileNotFoundError"

\* C2 witness: a get for a key that a stored, readable file does not hold.
C2_Witness ==
    /\ GetOnFileWithoutKey
    /\ config_file.kind = "object" /\ Len(config_file.pairs) = 1
    /\ GetReturnedEmpty

(***************************************************************************)
(* Claims about the logger factory.                                        *)
(***************************************************************************)
LoggerCalled == logger_call.op = "get_logger"

\* C3: the logger registered under each name has at most one file handler, and a
\* call with a name that an earlier call returned a logger for adds no handler
\* and, when it returns, returns the logger that name already had.
C3_NoDuplicateFileHandler ==
    /\ \A k \in DOMAIN loggerDict : FileHandlerCount(loggerDict[k]) <= 1
    /\ (LoggerCalled /\ logger_call.used_before) =>
          /\ logger_call.handlers_added = 0
          /\ (logger_call.raised = "none" => logger_call.ret = logger_call.prev_id)

\* C3 witness: a second call under a used name, with another file path, has
\* returned and the logger still has its one file handler, on the first path.
C3_Witness ==
    /\ LoggerCalled /\ logger_call.used_before /\ logger_call.raised = "none"
    /\ logger_call.name = "train"
    /\ FileHandlerCount(loggerDict["train"]) = 1
    /\ loggerDict["train"].handlers[1].path # logger_call.path

\* C4 (as claimed): for every file_path that does not end with ".log", the empty
\* string included, get_logger raises ValueError, and has by then created no
\* directory, touched no logger and attached no handler.
C4_NonLogPathIsValueError ==
    (LoggerCalled /\ ~EndsWith(logger_call.path, DotLog)) =>
        /\ logger_call.raised = "ValueError"
        /\ ~logger_call.dir_created
        /\ ~logger_call.logger_touched
        /\ logger_call.handlers_added = 0

\* C5 (as claimed, for a name not seen before and a file that can be opened): for
\* every file_path ending in ".log" whose parent directory does not exist yet,
\* get_logger does not raise, the parent directory exists afterwards, and the
\* logger returned has a file handler on that path.
C5_MissingParentIsCreated ==
    (/\ LoggerCalled
     /\ logger_call.name # "" /\ logger_call.prev_id = 0 /\ ~logger_call.open_fails
     /\ EndsWith(logger_call.path, DotLog)
     /\ ~logger_call.parent_existed) =>
        /\ logger_call.raised = "none"
        /\ (Len(DirName(logger_call.path)) > 0 =>
                DirExists(fs_dirs, DirName(logger_call.path)))
        /\ LoggerKey(logger_call.name) \in DOMAIN loggerDict
        /\ \E i \in 1..Len(loggerDict[LoggerKey(logger_call.name)].handlers) :
              loggerDict[LoggerKey(logger_call.name)].handlers[i] =
                  FileHandler(logger_call.path)

(***************************************************************************)
(* Claims about BertConfig.                                                *)
(***************************************************************************)
\* C6: BertConfig.from_dict(json.loads(c.to_json_string())) has exactly the fields
\* of c, each with an equal value, unknown keys and vocab_size included.
C6_JsonRoundTrip ==
    bert_back # NoObject =>
        /\ NoDupKeys(bert_back)
        /\ PairKeys(bert_back) = PairKeys(bert_config)
        /\ \A k \in PairKeys(bert_config) : Lookup(bert_back, k) = Lookup(bert_config, k)

\* C6 witness: a config built by from_dict with an unknown key and its own
\* vocab_size has gone through the round trip.
C6_Witness ==
    /\ bert_back # NoObject
    /\ HasKey(bert_back, "model_type")
    /\ Lookup(bert_config, "vocab_size") = PyInt(5)

(***************************************************************************)
(* Claims about BertOutput.                                                *)
(***************************************************************************)
\* C7 (as claimed): BertOutput.call returns the list of the outputs of the enabled
\* heads: the pooled output (the NSP probabilities with with_nsp) if with_pool is
\* set, then the MLM output if with_mlm is set; the list is never empty or absent.
C7_CallReturnsHeadOutputs ==
    output_call.op = "call" =>
        /\ output_call.ret =
              PyList((IF Truthy(output_layer.with_pool)
                      THEN IF output_layer.with_nsp THEN <<"nsp_prob">> ELSE <<"pooled">>
                      ELSE << >>)
                     \o (IF Truthy(output_layer.with_mlm) THEN <<"mlm">> ELSE << >>))
        /\ output_call.ret # PyNone
        /\ output_call.ret # PyList(<< >>)

\* C8 (as claimed): constructing BertOutput succeeds exactly when one of
\* with_pool/with_mlm is set and the fields of each requested head are supplied;
\* the fields of a head not requested are not required, and every failure is a
\* validation failure.
C8_InitNeedsOnlyRequestedFields ==
    output_call.op = "init" =>
        /\ output_call.raised = "none" <=>
              /\ Truthy(output_call.with_pool) \/ Truthy(output_call.with_mlm)
              /\ Truthy(output_call.with_pool) => "hidden_size" \in output_call.kwargs
              /\ Truthy(output_call.with_mlm) => MlmKwargs \subseteq output_call.kwargs
        /\ output_call.raised \in {"none", "AssertionError"}

(***************************************************************************)
(* Claims about ProgressBar.                                               *)
(***************************************************************************)
\* C9 (as claimed): in every state of a ProgressBar, right after construction and
\* right after reset included, done(step_time) returns the summary line without
\* raising: a bar of exactly width completed symbols between brackets, the step
\* time, and the current/total/metrics of the last __call__ since construction
\* or reset, if there was one.
C9_DoneReturnsSummaryInEveryState ==
    bar_call.op = "done" =>
        /\ bar_call.raised = "none"
        /\ bar_call.line.bar = <<"[">> \o Repeat(bar.symbol, bar.width) \o <<"]">>
        /\ bar_call.line.time = bar_call.step_time
        /\ bar_last.called =>
              /\ bar_call.line.current = bar_last.current
              /\ bar_call.line.total = bar_last.total
              /\ bar_call.line.metrics = bar_last.metrics

(***************************************************************************)
(* Claims about the head split of BertSelfAttention.                       *)
(***************************************************************************)
RoundTripDone == attn # NoObject /\ attn_merged # NoTensor

\* C10 (as claimed): splitting a (batch, seq, num_heads * head_size) tensor into
\* heads and merging it back raises nothing and gives a tensor of the same shape
\* with every element at its original index, for every batch size and sequence
\* length, a batch size other than the layer's batch_size included.
C10_SplitMergeIsIdentity ==
    RoundTripDone =>
        /\ attn_split.error = "none"
        /\ attn_split.shape = <<attn_input.shape[1], attn.num_heads,
                                attn_input.shape[2], attn.head_size>>
        /\ attn_merged.error = "none"
        /\ attn_merged.shape = attn_input.shape
        /\ attn_merged.data = attn_input.data

\* C10, the part the code keeps: with the input's batch size equal to the layer's
\* batch_size the round trip is the identity.
C10_IdentityAtOwnBatchSize ==
    (RoundTripDone /\ attn_input.shape[1] = attn.batch_size) =>
        /\ attn_split.error = "none"
        /\ attn_split.shape = <<attn_input.shape[1], attn.num_heads,
                                attn_input.shape[2], attn.head_size>>
        /\ \A b \in 0..(attn_input.shape[1] - 1), s \in 0..(attn_input.shape[2] - 1),
              h \in 0..(attn.num_heads - 1), d \in 0..(attn.head_size - 1) :
              attn_split.data[((b * attn.num_heads + h) * attn_input.shape[2] + s)
                                  * attn.head_size + d + 1]
                = attn_input.data[(b * attn_input.shape[2] + s) * attn_input.shape[3]
                                  + h * attn.head_size + d + 1]
        /\ attn_merged = attn_input

(***************************************************************************)
(* Claims about the hierarchical position lookup.                          *)
(***************************************************************************)
HierarchicalCall ==
    /\ pos_layer # NoObject
    /\ pos_call.op = "call"
    /\ Truthy(pos_layer.hierarchical)

InTableSquare(position) ==
    position \in 0..(pos_layer.input_dim * pos_layer.input_dim - 1)

\* C11: with hierarchical decomposition, both lookup indices of every position in
\* 0 .. input_dim^2 - 1 lie in 0 .. input_dim - 1, the gathers of a call whose
\* positions are all in that range do not fail, and two distinct positions of the
\* range never get the same pair of lookup indices.
C11_HierarchicalIndicesInRange ==
    HierarchicalCall =>
        /\ \A i \in 1..Len(pos_call.position_ids) :
              InTableSquare(pos_call.position_ids[i]) =>
                  /\ pos_call.index[i].x \in 0..(pos_layer.input_dim - 1)
                  /\ pos_call.index[i].y \in 0..(pos_layer.input_dim - 1)
        /\ (\A i \in 1..Len(pos_call.position_ids) :
                InTableSquare(pos_call.position_ids[i])) =>
              /\ pos_call.raised = "none"
              /\ \A i \in 1..Len(pos_call.lookups) :
                    pos_call.lookups[i] = pos_call.index[i]
        /\ \A i, j \in 1..Len(pos_call.position_ids) :
              (/\ InTableSquare(pos_call.position_ids[i])
               /\ InTableSquare(pos_call.position_ids[j])
               /\ pos_call.position_ids[i] # pos_call.position_ids[j]) =>
                  pos_call.index[i] # pos_call.index[j]

\* C11 witness: a hierarchical call over every position 0 .. input_dim^2 - 1 of a
\* table of more than one row has made its lookups, the last one at the last row
\* for both indices.
C11_Witness ==
    /\ HierarchicalCall
    /\ pos_layer.input_dim > 1
    /\ Len(pos_call.position_ids) = pos_layer.input_dim * pos_layer.input_dim
    /\ pos_call.raised = "none"
    /\ pos_call.lookups[Len(pos_call.lookups)] =
          [x |-> pos_layer.input_dim - 1, y |-> pos_layer.input_dim - 1]

C13_FailedSaveLeavesFile ==
    [][(config_call'.op = "save" /\ ~config_call'.ret) => config_file' = config_file]_vars

====
